---- MODULE Spec2Model ----
(***************************************************************************)
(* Model of the texture pipeline of services/imageProcessing                *)
(* (src/unnamed/part_000): crop, averaging, the three seamless generators,  *)
(* the tile preview and processTexture that chains them.                    *)
(*                                                                          *)
(* A canvas is a record [w, h, px] with px a function over its pixels.      *)
(* A pixel is [a, c]: a is its opacity class (0 transparent, 1 translucent, *)
(* 2 opaque) and c the set of colour sources blended into it.  The decoded  *)
(* image is generic: pixel (x,y) is opaque with the single source <<x,y>>,  *)
(* so two pixels of a surface are equal for every image only if they are    *)
(* equal here.  Lengths that the code computes as fractions (w * 0.7,       *)
(* Math.random() * ...) are integers counted in 1/Unit of a pixel.          *)
(*                                                                          *)
(* Spec follows one call of processTexture stage by stage, with the part   *)
(* of App's handleProcess that receives its outcome.  AppSpec follows the  *)
(* handlers of App (src/App.tsx) with processTexture taken as a whole.     *)
(***************************************************************************)
EXTENDS Integers, Sequences, FiniteSets, TLC

\* ---------------------------------------------------------------- bounds
\* decoded images are W x H with W, H in MaxDim-2 .. MaxDim
MaxDim == 7
\* Math.random() returns k / RandDen, k in 0 .. RandDen-1
RandDen == 4
\* crop amounts offered per side besides 0 and the full width or height
MaxCrop == 1
\* blur radii offered (the slider's range is 1 .. 20)
MaxRadius == 2
\* the files the user has to choose from
MaxFiles == 2
\* the file selections followed
MaxPicks == 3
\* the pipeline invocations followed
MaxCalls == 3

\* ------------------------------------------------------- program constants
patchCount == 30
PatchMargin == 10

Unit == 20 * RandDen * RandDen

Max(a, b) == IF a >= b THEN a ELSE b
Min(a, b) == IF a <= b THEN a ELSE b

\* ---------------------------------------------------------------- pixels
Transparent == [a |-> 0, c |-> {}]
RedInk == <<-1, -1>>

\* globalCompositeOperation = 'source-over': s drawn over d
Over(d, s) ==
  IF s.a = 2 THEN s
  ELSE IF s.a = 0 THEN d
  ELSE [a |-> IF d.a = 2 THEN 2 ELSE 1, c |-> d.c \cup s.c]

Pixels(w, h) == (0 .. (w - 1)) \X (0 .. (h - 1))

\* createCanvas(w, h) with w, h in 1/Unit: canvas.width = w truncates
createCanvas(wU, hU) ==
  [w |-> wU \div Unit, h |-> hU \div Unit,
   px |-> [p \in Pixels(wU \div Unit, hU \div Unit) |-> Transparent]]

\* the decoded image: img.width x img.height generic opaque pixels
Image(w, h) ==
  [w |-> w, h |-> h, px |-> [p \in Pixels(w, h) |-> [a |-> 2, c |-> {p}]]]

\* ------------------------------------------------------------- drawImage
\* One axis of drawImage(src, s, len, d, len) for destination pixel x:
\* the source rectangle is clipped to the source, the destination rectangle
\* in proportion; cells are the source pixels under the part of x it covers.
Axis(nSrc, s, len, d, x) ==
  LET s0 == Max(s, 0)
      s1 == Min(s + len, nSrc * Unit)
      d0 == d + (s0 - s)
      d1 == d + (s1 - s)
      lo == Max(x * Unit, d0)
      hi == Min((x + 1) * Unit, d1)
  IN  [hit   |-> lo < hi,
       full  |-> lo < hi /\ lo = x * Unit /\ hi = (x + 1) * Unit,
       cells |-> IF lo < hi
                 THEN ((lo - d + s) \div Unit) .. ((hi - d + s - 1) \div Unit)
                 ELSE {}]

\* the pixel a destination pixel receives from the source pixels in cs;
\* full: the destination pixel is wholly covered and globalAlpha is 1
Sample(src, cs, full) ==
  LET as == {src.px[q].a : q \in cs}
  IN  IF cs = {} \/ as = {0} THEN Transparent
      ELSE [a |-> IF full /\ as = {2} THEN 2 ELSE 1,
            c |-> UNION {src.px[q].c : q \in cs}]

\* what ctx.drawImage(src, sx, sy, sw, sh, dx, dy, sw, sh) puts on pixel p,
\* under globalAlpha = alpha / 100
Drawn(src, sx, sy, sw, sh, dx, dy, alpha, p) ==
  LET ax == Axis(src.w, sx, sw, dx, p[1])
      ay == Axis(src.h, sy, sh, dy, p[2])
  IN  IF sw <= 0 \/ sh <= 0 \/ alpha = 0 THEN Transparent
      ELSE Sample(src, ax.cells \X ay.cells,
                  ax.full /\ ay.full /\ alpha = 100)

drawImage(dst, src, sx, sy, sw, sh, dx, dy, alpha) ==
  [dst EXCEPT !.px = [p \in DOMAIN dst.px |->
      Over(dst.px[p], Drawn(src, sx, sy, sw, sh, dx, dy, alpha, p))]]

\* ctx.drawImage(src, dx, dy): the whole source at its own size
drawImageAt(dst, src, dx, dy, alpha) ==
  drawImage(dst, src, 0, 0, src.w * Unit, src.h * Unit, dx, dy, alpha)

\* ---------------------------------------------------------- pre-processing
\* applyCrop refusing only a negative size
applyCropStrict(canvas, crop) ==
  LET newWidth  == canvas.w - crop.left - crop.right
      newHeight == canvas.h - crop.top - crop.bottom
  IN  IF newWidth < 0 \/ newHeight < 0 THEN canvas
      ELSE drawImage(createCanvas(newWidth * Unit, newHeight * Unit), canvas,
                     crop.left * Unit, crop.top * Unit,
                     newWidth * Unit, newHeight * Unit, 0, 0, 100)

\* applyCrop reading the source from the right and bottom amounts
applyCropFromRight(canvas, crop) ==
  LET newWidth  == canvas.w - crop.left - crop.right
      newHeight == canvas.h - crop.top - crop.bottom
  IN  IF newWidth <= 0 \/ newHeight <= 0 THEN canvas
      ELSE drawImage(createCanvas(newWidth * Unit, newHeight * Unit), canvas,
                     crop.right * Unit, crop.bottom * Unit,
                     newWidth * Unit, newHeight * Unit, 0, 0, 100)

\* applyCrop: the cropped canvas, or the input when it returns null
applyCrop(canvas, crop) ==
  LET newWidth  == canvas.w - crop.left - crop.right
      newHeight == canvas.h - crop.top - crop.bottom
  IN  IF newWidth <= 0 \/ newHeight <= 0 THEN canvas
      ELSE drawImage(createCanvas(newWidth * Unit, newHeight * Unit), canvas,
                     crop.left * Unit, crop.top * Unit,
                     newWidth * Unit, newHeight * Unit, 0, 0, 100)

\* blurCtx.filter = 'blur(radius px)' then drawImage(canvas, 0, 0): a Gaussian of
\* standard deviation radius, reaching BlurReach(radius) pixels each way; what
\* lies outside the drawn image is transparent black (edge mode none)
BlurReach(radius) == 3 * radius

Window(p, reach) ==
  ((p[1] - reach) .. (p[1] + reach)) \X ((p[2] - reach) .. (p[2] + reach))

blurred(canvas, radius) ==
  [canvas EXCEPT !.px = [p \in DOMAIN canvas.px |->
      Sample(canvas, Window(p, BlurReach(radius)) \cap DOMAIN canvas.px,
             Window(p, BlurReach(radius)) \subseteq DOMAIN canvas.px)]]

\* applyAveraging: the original, then the blurred copy over it at
\* globalAlpha = intensity / 100
applyAveraging(canvas, settings) ==
  IF settings.intensity <= 0 THEN canvas
  ELSE drawImageAt(
         drawImageAt(createCanvas(canvas.w * Unit, canvas.h * Unit), canvas, 0, 0, 100),
         blurred(canvas, settings.radius), 0, 0, settings.intensity)

\* blurred copies applyAveraging computes
blurCopies(settings) == IF settings.intensity <= 0 THEN 0 ELSE 1

\* ------------------------------------------------------- gradient masks
\* opacity class of a radial gradient (centre cx, cy, radii 0 and r, opaque up
\* to stop num/den, transparent at stop 1) at the centre of pixel p
GradAlpha(cx, cy, r, num, den, p) ==
  LET ex == ((2 * p[1] + 1) * Unit) \div 2 - cx
      ey == ((2 * p[2] + 1) * Unit) \div 2 - cy
      d2 == ex * ex + ey * ey
  IN  IF den * den * d2 <= num * num * r * r THEN 2
      ELSE IF d2 >= r * r THEN 0
      ELSE 1

\* globalCompositeOperation = 'destination-in': the pixel keeps its colour and
\* its opacity is multiplied by the mask's
MaskPixel(q, g) ==
  IF g = 0 \/ q.a = 0 THEN Transparent
  ELSE IF g = 2 THEN q
  ELSE [a |-> 1, c |-> q.c]

destinationIn(canvas, cx, cy, r, num, den) ==
  [canvas EXCEPT !.px = [p \in DOMAIN canvas.px |->
      MaskPixel(canvas.px[p], GradAlpha(cx, cy, r, num, den, p))]]

\* drawImage throws InvalidStateError for a canvas with a zero dimension
ZeroSized(canvas) == canvas.w = 0 \/ canvas.h = 0

\* ------------------------------------------------------------- Mirrored
\* One of the four drawImage(src, 0, 0, w, h, 0, 0, w/2, h/2) calls, under
\* scale(-1,1) / scale(1,-1) as flipX / flipY say: what it puts on pixel p
\* Half with the scale(-1, ...) forgotten
HalfUnflipped(n, flip, x) ==
  [hit   |-> 2 * x < n,
   full  |-> 2 * x + 2 <= n,
   cells |-> IF 2 * x < n THEN (2 * x) .. Min(2 * x + 1, n - 1) ELSE {}]

Half(n, flip, x) ==
  LET u == IF flip THEN n - 1 - x ELSE x
  IN  [hit   |-> 2 * u < n,
       full  |-> 2 * u + 2 <= n,
       cells |-> IF 2 * u < n THEN (2 * u) .. Min(2 * u + 1, n - 1) ELSE {}]

drawQuadrant(dst, src, flipX, flipY) ==
  [dst EXCEPT !.px = [p \in DOMAIN dst.px |->
      LET ax == Half(src.w, flipX, p[1])
          ay == Half(src.h, flipY, p[2])
      IN  Over(dst.px[p], Sample(src, ax.cells \X ay.cells, ax.full /\ ay.full))]]

generateMirrored(srcCanvas) ==
  LET c0 == createCanvas(srcCanvas.w * Unit, srcCanvas.h * Unit)
      c1 == drawQuadrant(c0, srcCanvas, FALSE, FALSE)
      c2 == drawQuadrant(c1, srcCanvas, TRUE, FALSE)
      c3 == drawQuadrant(c2, srcCanvas, FALSE, TRUE)
  IN  drawQuadrant(c3, srcCanvas, TRUE, TRUE)

\* ------------------------------------------------------------ Scattered
\* Math.floor(n / 2) in place of Math.round
HalfFloor(n) == n \div 2

\* Math.round(n / 2)
HalfRound(n) == (n + 1) \div 2

\* step 1: the four quadrants swapped
swapQuadrants(srcCanvas) ==
  LET w == srcCanvas.w
      h == srcCanvas.h
      hw == HalfRound(w) * Unit
      hh == HalfRound(h) * Unit
      c0 == createCanvas(w * Unit, h * Unit)
      c1 == drawImage(c0, srcCanvas, 0, 0, hw, hh, hw, hh, 100)
      c2 == drawImage(c1, srcCanvas, hw, 0, hw, hh, 0, hh, 100)
      c3 == drawImage(c2, srcCanvas, 0, hh, hw, hh, hw, 0, 100)
  IN  drawImage(c3, srcCanvas, hw, hh, hw, hh, 0, 0, 100)

\* the source and destination origins of the four blits of step 1, each
\* HalfRound(w) by HalfRound(h)
quadrantBlits(w, h) ==
  LET hw == HalfRound(w) * Unit
      hh == HalfRound(h) * Unit
  IN  <<[sx |-> 0,  sy |-> 0,  dx |-> hw, dy |-> hh],
        [sx |-> hw, sy |-> 0,  dx |-> 0,  dy |-> hh],
        [sx |-> 0,  sy |-> hh, dx |-> hw, dy |-> 0],
        [sx |-> hw, sy |-> hh, dx |-> 0,  dy |-> 0]>>

blendSize(n) == (7 * n * Unit) \div 10
blendOrigin(n) == (n * Unit - blendSize(n)) \div 2

\* step 2: the feathered patch cut from the centre of the source
centrePatch(srcCanvas) ==
  LET bw == blendSize(srcCanvas.w)
      bh == blendSize(srcCanvas.h)
      pc0 == drawImage(createCanvas(bw, bh), srcCanvas,
                       blendOrigin(srcCanvas.w), blendOrigin(srcCanvas.h), bw, bh,
                       0, 0, 100)
  IN  destinationIn(pc0, bw \div 2, bh \div 2, Min(bw, bh) \div 2, 1, 2)

scatteredThrows(srcCanvas) == ZeroSized(centrePatch(srcCanvas))

\* step 3: the patch pasted at (blendX, blendY)
generateScattered(srcCanvas) ==
  drawImageAt(swapQuadrants(srcCanvas), centrePatch(srcCanvas),
              blendOrigin(srcCanvas.w), blendOrigin(srcCanvas.h), 100)

\* ----------------------------------------------------------- PatchBased
\* Math.random(): a generator whose state rng = <<x, step>> is unknown when
\* the pipeline starts; each call returns x / RandDen and adds step to x.
\* RandAt is the numerator of the n-th call from now
RandAt(rng, n) == (rng[1] + n * rng[2]) % RandDen

\* the five draws of one loop iteration, lengths in 1/Unit
patchDraws(w, h, rng) ==
  LET m    == Min(w, h)
      size == 2 * RandDen * m * (2 * RandDen + 3 * RandAt(rng, 0))
      fw   == w * Unit - size
      fh   == h * Unit - size
  IN  [size |-> size,
       sx |-> (RandAt(rng, 1) * fw) \div RandDen,
       sy |-> (RandAt(rng, 2) * fh) \div RandDen,
       dx |-> PatchMargin * Unit
                + (RandAt(rng, 3) * (fw - 2 * PatchMargin * Unit)) \div RandDen,
       dy |-> PatchMargin * Unit
                + (RandAt(rng, 4) * (fh - 2 * PatchMargin * Unit)) \div RandDen]

\* the fuzzy patch pC of one iteration
fuzzyPatch(srcCanvas, d) ==
  destinationIn(
    drawImage(createCanvas(d.size, d.size), srcCanvas, d.sx, d.sy, d.size, d.size,
              0, 0, 100),
    d.size \div 2, d.size \div 2, d.size \div 2, 3, 5)

\* pixels of dst on which drawImage(src, dx, dy) puts something
Touched(dst, src, dx, dy) ==
  {p \in DOMAIN dst.px :
     Drawn(src, 0, 0, src.w * Unit, src.h * Unit, dx, dy, 100, p).a > 0}

\* --------------------------------------------------------- tile preview
\* strokeRect(x0, y0, w, h) with lineWidth 1: the band half a pixel either
\* side of the outline, in strokeStyle rgba(255, 0, 0, 0.5)
OnStroke(x0, y0, w, h, p) ==
  /\ p[1] >= x0 - 1 /\ p[1] <= x0 + w
  /\ p[2] >= y0 - 1 /\ p[2] <= y0 + h
  /\ ~ (/\ p[1] >= x0 + 1 /\ p[1] <= x0 + w - 2
        /\ p[2] >= y0 + 1 /\ p[2] <= y0 + h - 2)

strokeRect(dst, x0, y0, w, h) ==
  [dst EXCEPT !.px = [p \in DOMAIN dst.px |->
      IF OnStroke(x0, y0, w, h, p)
      THEN Over(dst.px[p], [a |-> 1, c |-> {RedInk}])
      ELSE dst.px[p]]]

\* the loop body stepping columns by the height
tileCellByHeight(canvas, textureCanvas, cols, markSeams, k) ==
  LET w == textureCanvas.w
      h == textureCanvas.h
      r == k \div cols
      c == k % cols
      blit == drawImageAt(canvas, textureCanvas, c * h * Unit, r * h * Unit, 100)
  IN  IF markSeams THEN strokeRect(blit, c * h, r * h, w, h) ELSE blit

\* the body of the loop for cell k = r * cols + c
tileCell(canvas, textureCanvas, cols, markSeams, k) ==
  LET w == textureCanvas.w
      h == textureCanvas.h
      r == k \div cols
      c == k % cols
      blit == drawImageAt(canvas, textureCanvas, c * w * Unit, r * h * Unit, 100)
  IN  IF markSeams THEN strokeRect(blit, c * w, r * h, w, h) ELSE blit

\* canvas.toDataURL(format): JPEG has no alpha channel, the canvas is
\* flattened onto black; the quality factor is not modelled
BlackInk == <<-2, -2>>

toDataURL(canvas, format) ==
  [format |-> format, w |-> canvas.w, h |-> canvas.h,
   px |-> IF format = "image/jpeg"
          THEN [p \in DOMAIN canvas.px |->
                  IF canvas.px[p].a = 2 THEN canvas.px[p]
                  ELSE [a |-> 2, c |-> canvas.px[p].c \cup {BlackInk}]]
          ELSE canvas.px]

\* ------------------------------------------------------------- the state
VARIABLES
  pc,        \* where processTexture stands
  args,      \* the image and the settings processTexture is called with
  rng,       \* the state of Math.random()
  cur,       \* currentCanvas
  seam,      \* seamlessCanvas (generatePatchBased's canvas while it loops)
  i,         \* generatePatchBased's loop counter
  draws,     \* size, sx, sy, dx, dy of the latest iteration
  written,   \* pixels of seam on which the loop's patches put something
  blurs,     \* blurred copies computed so far
  preview,   \* generateTilePreview's canvas
  cell,      \* generateTilePreview's loop position, r * cols + c
  result,    \* the ProcessResult returned, NoResult before
  run,       \* invocations started so far
  prev,      \* seamlessCanvas of the invocation before this one
  file,         \* App: the selected file, NoFile before any
  filePreview,  \* App: the data URL read from a file, NoFile before any
  isProcessing, \* App: the flag that disables the Generate button
  error,        \* App: the message shown, NoError for null
  stored,       \* App: the result state, NoStored for null
  reads,        \* FileReader loads not yet delivered
  flights,      \* handleProcess calls whose timer or pipeline is pending
  picks         \* files selected so far

pipeVars == <<pc, args, rng, cur, seam, i, draws, written, blurs, preview, cell,
              result, prev>>

appVars == <<file, filePreview, isProcessing, error, stored, reads, flights,
             picks>>

vars == <<pc, args, rng, cur, seam, i, draws, written, blurs, preview, cell,
          result, run, prev, file, filePreview, isProcessing, error, stored,
          reads, flights, picks>>

NoFile == 0
NoError == "null"
NoStored == [call |-> 0, src |-> NoFile, res |-> "null"]
UploadFirst == "Please upload an image first."
ProcessingError == "An error occurred while processing the image."
InvalidFile == "Please select a valid image file."

Blank == createCanvas(0, 0)
NoDraws == [size |-> 0, sx |-> 0, sy |-> 0, dx |-> 0, dy |-> 0]
NoResult == [width |-> 0, height |-> 0, seamlessUrl |-> Blank, previewUrl |-> Blank]

MIRRORED == "mirrored"
SCATTERED == "scattered"
PATCH_BASED == "patch_based"
Methods == {MIRRORED, SCATTERED, PATCH_BASED}
Formats == {"image/jpeg", "image/png"}

Dims == (MaxDim - 2) .. MaxDim
NoCrop == [top |-> 0, bottom |-> 0, left |-> 0, right |-> 0]
NoAveraging == [intensity |-> 0, radius |-> 1]

\* crop amounts for a side of length n: none, a few pixels, all but one
CropAmounts(n) == (0 .. MaxCrop) \cup {n - 1}

CropChoices(w, h) ==
  [top : CropAmounts(h), bottom : CropAmounts(h),
   left : CropAmounts(w), right : CropAmounts(w)]

AveragingChoices == [intensity : {0, 50, 100}, radius : 1 .. MaxRadius]

Config(w, h, cr, av, m, n, marks, fmt, runs) ==
  [w |-> w, h |-> h, crop |-> cr, averaging |-> av, method |-> m,
   tileFormat |-> n, markSeams |-> marks, outputFormat |-> fmt, runs |-> runs]

\* crops from the left and the top only
CornerCrops(w, h) ==
  {[NoCrop EXCEPT !.left = l, !.top = t] : l \in CropAmounts(w), t \in 0 .. MaxCrop}

\* the calls explored, image by image: every crop; every averaging setting,
\* uncropped and cropped; the two generators that build on the quadrant swap,
\* on corner crops (generatePatchBased twice over on a whole square image);
\* every tile format, seam marking and output format
ConfigsOf(w, h) ==
  {Config(w, h, cr, NoAveraging, MIRRORED, 1, FALSE, "image/png", 1) :
     cr \in CropChoices(w, h)}
  \cup
  {Config(w, h, cr, av, MIRRORED, 1, FALSE, "image/png", 1) :
     cr \in {NoCrop, [NoCrop EXCEPT !.left = MaxCrop]}, av \in AveragingChoices}
  \cup
  {Config(w, h, cr, NoAveraging, SCATTERED, 2, FALSE, "image/png", 1) :
     cr \in CornerCrops(w, h)}
  \cup
  {Config(w, h, cr, NoAveraging, PATCH_BASED, 1, FALSE, "image/png",
          IF cr = NoCrop /\ w = h THEN 2 ELSE 1) :
     cr \in {c \in CornerCrops(w, h) : c.top = 0}}
  \cup
  {Config(w, h, NoCrop, NoAveraging, m, n, marks, fmt, 1) :
     m \in {MIRRORED, SCATTERED}, n \in 1 .. 3, marks \in BOOLEAN, fmt \in Formats}

Configs == UNION {ConfigsOf(d[1], d[2]) : d \in Dims \X Dims}

\* the generator's states; Math.random() is read by generatePatchBased alone
Seeds(method) ==
  IF method = PATCH_BASED THEN (0 .. (RandDen - 1)) \X {1, RandDen - 1}
  ELSE {<<0, 1>>}

Init ==
  /\ pc = "load"
  /\ args \in Configs
  /\ rng \in Seeds(args.method)
  /\ cur = Blank /\ seam = Blank /\ preview = Blank /\ prev = Blank
  /\ i = 0 /\ cell = 0 /\ blurs = 0 /\ run = 1
  /\ draws = NoDraws /\ written = {}
  /\ result = NoResult
  /\ file = 1 /\ filePreview = 1 /\ picks = 1
  /\ isProcessing = TRUE /\ error = NoError /\ stored = NoStored
  /\ reads = {} /\ flights = {}

\* ------------------------------------------------------------ the pipeline
Fail ==
  /\ pc' = "failed"
  /\ UNCHANGED <<args, rng, cur, seam, i, draws, written, blurs, preview, cell,
                 result, run, prev>>

\* loadImage resolved, then the base canvas
LoadOk ==
  /\ pc = "load"
  /\ cur' = drawImageAt(createCanvas(args.w * Unit, args.h * Unit),
                        Image(args.w, args.h), 0, 0, 100)
  /\ pc' = "crop"
  /\ UNCHANGED <<args, rng, seam, i, draws, written, blurs, preview, cell,
                 result, run, prev>>
  /\ UNCHANGED appVars

\* loadImage rejected (img.onerror)
LoadError ==
  /\ pc = "load"
  /\ Fail
  /\ UNCHANGED appVars

CropStage ==
  /\ pc = "crop"
  /\ cur' = IF \/ args.crop.top > 0 \/ args.crop.bottom > 0
               \/ args.crop.left > 0 \/ args.crop.right > 0
            THEN applyCrop(cur, args.crop) ELSE cur
  /\ pc' = "average"
  /\ UNCHANGED <<args, rng, seam, i, draws, written, blurs, preview, cell,
                 result, run, prev>>
  /\ UNCHANGED appVars

\* the stage with both intensity checks dropped
AverageStageEager ==
  /\ pc = "average"
  /\ cur' = drawImageAt(
              drawImageAt(createCanvas(cur.w * Unit, cur.h * Unit), cur, 0, 0, 100),
              blurred(cur, args.averaging.radius), 0, 0, args.averaging.intensity)
  /\ blurs' = blurs + 1
  /\ pc' = "synth"
  /\ UNCHANGED <<args, rng, seam, i, draws, written, preview, cell, result,
                 run, prev>>
  /\ UNCHANGED appVars

AverageStage ==
  /\ pc = "average"
  /\ cur' = IF args.averaging.intensity > 0
            THEN applyAveraging(cur, args.averaging) ELSE cur
  /\ blurs' = IF args.averaging.intensity > 0
              THEN blurs + blurCopies(args.averaging) ELSE blurs
  /\ pc' = "synth"
  /\ UNCHANGED <<args, rng, seam, i, draws, written, preview, cell, result,
                 run, prev>>
  /\ UNCHANGED appVars

SynthMirrored ==
  /\ pc = "synth" /\ args.method = MIRRORED
  /\ seam' = generateMirrored(cur)
  /\ pc' = "tile"
  /\ UNCHANGED <<args, rng, cur, i, draws, written, blurs, preview, cell,
                 result, run, prev>>
  /\ UNCHANGED appVars

SynthScattered ==
  /\ pc = "synth" /\ args.method = SCATTERED
  /\ IF scatteredThrows(cur) THEN Fail
     ELSE /\ seam' = generateScattered(cur)
          /\ pc' = "tile"
          /\ UNCHANGED <<args, rng, cur, i, draws, written, blurs, preview,
                         cell, result, run, prev>>
  /\ UNCHANGED appVars

\* generatePatchBased up to its loop: the canvas filled with the source
SynthPatchBased ==
  /\ pc = "synth" /\ args.method = PATCH_BASED
  /\ seam' = drawImageAt(createCanvas(cur.w * Unit, cur.h * Unit), cur, 0, 0, 100)
  /\ i' = 0 /\ written' = {} /\ draws' = NoDraws
  /\ pc' = "patch"
  /\ UNCHANGED <<args, rng, cur, blurs, preview, cell, result, run, prev>>
  /\ UNCHANGED appVars

\* one iteration of generatePatchBased's loop
PatchStep ==
  /\ pc = "patch"
  /\ LET d  == patchDraws(cur.w, cur.h, rng)
         pC == fuzzyPatch(cur, d)
         c0 == IF i = 0 THEN drawImageAt(seam, generateScattered(cur), 0, 0, 100)
               ELSE seam
     IN  IF (i = 0 /\ scatteredThrows(cur)) \/ ZeroSized(pC) THEN Fail
         ELSE /\ seam' = drawImageAt(c0, pC, d.dx, d.dy, 100)
              /\ written' = written \cup Touched(c0, pC, d.dx, d.dy)
              /\ draws' = d
              /\ rng' = <<RandAt(rng, 5), rng[2]>>
              /\ i' = i + 1
              /\ pc' = IF i + 1 < patchCount THEN "patch" ELSE "tile"
              /\ UNCHANGED <<args, cur, blurs, preview, cell, result, run, prev>>
  /\ UNCHANGED appVars

\* one iteration of generateTilePreview's loops
TileStep ==
  /\ pc = "tile"
  /\ LET n  == args.tileFormat
         c0 == IF cell = 0 THEN createCanvas(seam.w * n * Unit, seam.h * n * Unit)
               ELSE preview
     IN  /\ preview' = tileCell(c0, seam, n, args.markSeams, cell)
         /\ cell' = cell + 1
         /\ pc' = IF cell + 1 < n * n THEN "tile" ELSE "export"
  /\ UNCHANGED <<args, rng, cur, seam, i, draws, written, blurs, result, run, prev>>
  /\ UNCHANGED appVars

\* the result reporting the preview's size
ExportPreviewSize ==
  /\ pc = "export"
  /\ result' = [seamlessUrl |-> toDataURL(seam, args.outputFormat),
                previewUrl |-> toDataURL(preview, args.outputFormat),
                width |-> preview.w, height |-> preview.h]
  /\ pc' = "done"
  /\ UNCHANGED <<args, rng, cur, seam, i, draws, written, blurs, preview, cell,
                 run, prev>>
  /\ UNCHANGED appVars

Export ==
  /\ pc = "export"
  /\ result' = [seamlessUrl |-> toDataURL(seam, args.outputFormat),
                previewUrl |-> toDataURL(preview, args.outputFormat),
                width |-> seam.w, height |-> seam.h]
  /\ pc' = "done"
  /\ UNCHANGED <<args, rng, cur, seam, i, draws, written, blurs, preview, cell,
                 run, prev>>
  /\ UNCHANGED appVars

\* the caller invokes processTexture again on the same input and settings;
\* the generator is shared with the page, its state by then is unknown
InvokeAgain ==
  /\ pc = "done" /\ run < args.runs
  /\ ~ isProcessing
  /\ isProcessing' = TRUE /\ error' = NoError
  /\ UNCHANGED <<file, filePreview, stored, reads, flights, picks>>
  /\ prev' = seam
  /\ run' = run + 1
  /\ pc' = "load"
  /\ cur' = Blank /\ seam' = Blank /\ preview' = Blank
  /\ i' = 0 /\ cell' = 0 /\ blurs' = 0
  /\ draws' = NoDraws /\ written' = {}
  /\ result' = NoResult
  /\ rng' \in Seeds(args.method)
  /\ UNCHANGED args

\* createCanvas throws 'Could not get canvas context' for the base canvas
CanvasError ==
  /\ pc = "load"
  /\ Fail
  /\ UNCHANGED appVars

\* handleProcess, the try block completed: setResult(res), then the finally
handlerThen(call, src, res) ==
  /\ stored' = [call |-> call, src |-> src, res |-> res]
  /\ isProcessing' = FALSE
  /\ error' = error

\* the catch block without the finally
handlerCatchNoFinally ==
  /\ error' = ProcessingError
  /\ isProcessing' = isProcessing
  /\ stored' = stored

\* the catch block storing what the run had produced
handlerCatchStores ==
  /\ error' = ProcessingError
  /\ isProcessing' = FALSE
  /\ stored' = [call |-> run, src |-> filePreview, res |-> result]

\* handleProcess, the catch block: setError(...), then the finally
handlerCatch ==
  /\ error' = ProcessingError
  /\ isProcessing' = FALSE
  /\ stored' = stored

\* the promise of processTexture fulfilled with the ProcessResult
Resolved ==
  /\ pc = "done" /\ isProcessing
  /\ handlerThen(run, filePreview, result)
  /\ UNCHANGED <<pipeVars, run, file, filePreview, reads, flights, picks>>

\* the promise of processTexture rejected
Rejected ==
  /\ pc = "failed" /\ isProcessing
  /\ handlerCatch
  /\ UNCHANGED <<pipeVars, run, file, filePreview, reads, flights, picks>>

Next ==
  \/ LoadOk \/ LoadError \/ CanvasError
  \/ CropStage \/ AverageStage
  \/ SynthMirrored \/ SynthScattered \/ SynthPatchBased \/ PatchStep
  \/ TileStep \/ Export
  \/ Resolved \/ Rejected
  \/ InvokeAgain

Spec == Init /\ [][Next]_vars

\* ------------------------------------------------------------- the page
\* App with processTexture taken as a whole: after its await of loadImage it
\* runs to its return or its throw without yielding to another handler.
Files == 1 .. MaxFiles

TooLarge == "File size exceeds 10MB limit."

\* the settings App starts with
DefaultArgs ==
  Config(MaxDim, MaxDim, NoCrop, NoAveraging, SCATTERED, 2, FALSE, "image/jpeg", 0)

AppInit ==
  /\ pc = "idle" /\ args = DefaultArgs /\ rng = <<0, 1>>
  /\ cur = Blank /\ seam = Blank /\ preview = Blank /\ prev = Blank
  /\ i = 0 /\ cell = 0 /\ blurs = 0 /\ run = 0
  /\ draws = NoDraws /\ written = {}
  /\ result = NoResult
  /\ file = NoFile /\ filePreview = NoFile /\ picks = 0
  /\ isProcessing = FALSE /\ error = NoError /\ stored = NoStored
  /\ reads = {} /\ flights = {}

\* a valid file f is chosen: setFile, setError(null), setResult(null) and a
\* FileReader started
handleFileChange(f) ==
  /\ picks < MaxPicks
  /\ picks' = picks + 1
  /\ file' = f /\ error' = NoError /\ stored' = NoStored
  /\ reads' = reads \cup {f}
  /\ UNCHANGED <<pipeVars, run, filePreview, isProcessing, flights>>

\* a file over 10MB or not an image is chosen: setError and return
handleFileChangeInvalid(msg) ==
  /\ picks < MaxPicks
  /\ picks' = picks + 1
  /\ error' = msg
  /\ UNCHANGED <<pipeVars, run, file, filePreview, isProcessing, stored, reads,
                 flights>>

\* reader.onload: setFilePreview
readerOnload(f) ==
  /\ f \in reads
  /\ filePreview' = f
  /\ reads' = reads \ {f}
  /\ UNCHANGED <<pipeVars, run, file, isProcessing, error, stored, flights, picks>>

\* a click taken whether or not the button is disabled
handleProcessUnguarded ==
  /\ run < MaxCalls
  /\ IF filePreview = NoFile \/ file = NoFile
     THEN /\ error' = UploadFirst
          /\ UNCHANGED <<run, isProcessing, flights>>
     ELSE /\ isProcessing' = TRUE
          /\ error' = NoError
          /\ run' = run + 1
          /\ flights' = flights \cup
               {[call |-> run + 1, src |-> filePreview, at |-> "timer"]}
  /\ UNCHANGED <<pipeVars, file, filePreview, stored, reads, picks>>

\* a click on Generate, which the button takes while it is not disabled
handleProcess ==
  /\ ~ (isProcessing \/ file = NoFile)
  /\ run < MaxCalls
  /\ IF filePreview = NoFile \/ file = NoFile
     THEN /\ error' = UploadFirst
          /\ UNCHANGED <<run, isProcessing, flights>>
     ELSE /\ isProcessing' = TRUE
          /\ error' = NoError
          /\ run' = run + 1
          /\ flights' = flights \cup
               {[call |-> run + 1, src |-> filePreview, at |-> "timer"]}
  /\ UNCHANGED <<pipeVars, file, filePreview, stored, reads, picks>>

\* the 100 ms timer of the oldest waiting call fires: processTexture is
\* called and awaits loadImage
timerFires ==
  \E fl \in flights :
    /\ fl.at = "timer"
    /\ \A g \in flights : g.at = "timer" => fl.call <= g.call
    /\ flights' = (flights \ {fl}) \cup {[fl EXCEPT !.at = "pipeline"]}
    /\ UNCHANGED <<pipeVars, run, file, filePreview, isProcessing, error,
                   stored, reads, picks>>

\* a pending processTexture returns its ProcessResult
pipelineResolves ==
  \E fl \in flights :
    /\ fl.at = "pipeline"
    /\ handlerThen(fl.call, fl.src, [of |-> fl.src])
    /\ flights' = flights \ {fl}
    /\ UNCHANGED <<pipeVars, run, file, filePreview, reads, picks>>

\* a pending processTexture throws
pipelineRejects ==
  \E fl \in flights :
    /\ fl.at = "pipeline"
    /\ handlerCatch
    /\ flights' = flights \ {fl}
    /\ UNCHANGED <<pipeVars, run, file, filePreview, reads, picks>>

AppNext ==
  \/ \E f \in Files : handleFileChange(f)
  \/ \E msg \in {TooLarge, InvalidFile} : handleFileChangeInvalid(msg)
  \/ \E f \in Files : readerOnload(f)
  \/ handleProcess
  \/ timerFires
  \/ pipelineResolves
  \/ pipelineRejects

AppSpec == AppInit /\ [][AppNext]_vars

\* timers fire and the promise of processTexture settles
AppLive ==
  /\ AppSpec
  /\ WF_vars(timerFires)
  /\ WF_vars(pipelineResolves \/ pipelineRejects)

\* ------------------------------------------------------------- the claims
Border(c) ==
  {p \in DOMAIN c.px : p[1] \in {0, c.w - 1} \/ p[2] \in {0, c.h - 1}}

Finished == pc \in {"tile", "export", "done"}

\* the decoded image as the base canvas holds it
Loaded == Image(args.w, args.h)

DegenerateCrop ==
  \/ args.crop.left + args.crop.right >= args.w
  \/ args.crop.top + args.crop.bottom >= args.h

\* where the quadrant swap takes destination index x of a side of length n
\* from: x - round(n/2) or x + round(n/2), or -1 where nothing lands
SwapFrom(n, x) ==
  IF x >= (n + 1) \div 2 THEN x - (n + 1) \div 2
  ELSE IF x + (n + 1) \div 2 < n THEN x + (n + 1) \div 2
  ELSE -1

\* pixels of the generator's output on which a feathered patch has drawn
PatchCovered ==
  written \cup Touched(cur, centrePatch(cur), blendOrigin(cur.w), blendOrigin(cur.h))

C2_MirroredSymmetric ==
  (Finished /\ args.method = MIRRORED)
    => /\ seam.w = cur.w /\ seam.h = cur.h
       /\ \A p \in DOMAIN seam.px :
            /\ seam.px[p] = seam.px[<<seam.w - 1 - p[1], p[2]>>]
            /\ seam.px[p] = seam.px[<<p[1], seam.h - 1 - p[2]>>]
            /\ (2 * p[1] + 2 <= cur.w /\ 2 * p[2] + 2 <= cur.h)
                 => seam.px[p] =
                      [a |-> 2,
                       c |-> UNION {cur.px[q].c :
                                      q \in {2 * p[1], 2 * p[1] + 1}
                                            \X {2 * p[2], 2 * p[2] + 1}}]

\* a finished Mirrored output of odd width whose left and right columns agree
C2_Witness ==
  /\ Finished /\ args.method = MIRRORED
  /\ cur.w % 2 = 1 /\ cur.w >= 5 /\ cur.h >= 4
  /\ seam.px[<<0, 1>>] = seam.px[<<seam.w - 1, 1>>]
  /\ seam.px[<<0, 1>>].a = 2
  /\ seam.px[<<0, 1>>] # seam.px[<<1, 1>>]

\* C3: with left+right >= width or top+bottom >= height the crop stage fails
\* nothing and hands on the surface it was given, same size, same pixels.
C3_DegenerateCropIsNoOp ==
  [][(pc = "crop" /\ DegenerateCrop)
       => (pc' = "average" /\ cur' = cur /\ cur' = Loaded)]_vars

\* the stage after a crop of the whole width has left the image as it was
C3_Witness ==
  /\ pc = "average"
  /\ args.crop.left + args.crop.right = args.w /\ args.crop.left > 0
  /\ args.crop.top + args.crop.bottom < args.h
  /\ cur = Loaded

\* C4: with width-left-right > 0 and height-top-bottom > 0 the crop stage
\* yields a surface of that size whose pixel (x,y) is the source's (x+left, y+top).
C4_CropCopiesInterior ==
  (pc = "average" /\ ~ DegenerateCrop)
    => /\ cur.w = args.w - args.crop.left - args.crop.right
       /\ cur.h = args.h - args.crop.top - args.crop.bottom
       /\ DOMAIN cur.px = Pixels(cur.w, cur.h)
       /\ \A p \in DOMAIN cur.px :
            cur.px[p] = Loaded.px[<<p[1] + args.crop.left, p[2] + args.crop.top>>]

\* a crop that takes a different amount from each side has been applied
C4_Witness ==
  /\ pc = "average" /\ ~ DegenerateCrop
  /\ args.crop.left > 0 /\ args.crop.right = 0
  /\ args.crop.top = 0 /\ args.crop.bottom > 0
  /\ cur.w = args.w - args.crop.left /\ cur.h < args.h
  /\ cur.px[<<0, 0>>] = Loaded.px[<<args.crop.left, 0>>]

\* C5: averaging with intensity 0 hands on its input unchanged, whatever the
\* radius, and computes no blurred copy.
C5_ZeroIntensityIsNoOp ==
  [][(pc = "average" /\ args.averaging.intensity = 0)
       => (cur' = cur /\ blurs' = blurs /\ pc' = "synth")]_vars

\* the stage has been passed with intensity 0 and the larger radius
C5_Witness ==
  /\ pc = "synth"
  /\ args.averaging.intensity = 0 /\ args.averaging.radius > 1
  /\ args.crop = NoCrop
  /\ cur = Loaded /\ blurs = 0

\* C6: averaging with intensity 100 yields the blurred copy of its input, at
\* every pixel, with nothing of the original kept.
C6_FullIntensityIsBlurredCopy ==
  [][(pc = "average" /\ args.averaging.intensity = 100)
       => cur' = blurred(cur, args.averaging.radius)]_vars

\* the pixels within PatchMargin of an edge
Margin(c) ==
  {p \in DOMAIN c.px :
     \/ p[1] < PatchMargin \/ p[1] >= c.w - PatchMargin
     \/ p[2] < PatchMargin \/ p[2] >= c.h - PatchMargin}

\* C7: every patch of generatePatchBased lands with dx in [10, W-s-10] and dy
\* in [10, H-s-10] and draws nothing within 10 pixels of an edge (nothing at
\* all when the dimension leaves no such room), which is what keeps the border
\* rows and columns those of the Scattered base.
C7_PatchesKeepMargin ==
  (args.method = PATCH_BASED /\ i > 0 /\ pc \in {"patch", "tile", "export", "done"})
    => /\ (cur.w * Unit - draws.size - 2 * PatchMargin * Unit > 0)
            => /\ draws.dx >= PatchMargin * Unit
               /\ draws.dx <= cur.w * Unit - draws.size - PatchMargin * Unit
       /\ (cur.h * Unit - draws.size - 2 * PatchMargin * Unit > 0)
            => /\ draws.dy >= PatchMargin * Unit
               /\ draws.dy <= cur.h * Unit - draws.size - PatchMargin * Unit
       /\ written \cap Margin(seam) = {}

\* C8: two PatchBased invocations on the same input and settings, whatever
\* their random draws, end with pixel-identical border rows and columns.
C8_RunsShareBorder ==
  (pc = "done" /\ run = 2 /\ args.method = PATCH_BASED)
    => \A p \in Border(seam) : seam.px[p] = prev.px[p]

\* C9: without seam marks the preview is N*W by N*H and its pixel (x,y) is the
\* seamless surface's pixel (x mod W, y mod H); for N = 1 it is that surface.
C9_PreviewTiles ==
  (pc \in {"export", "done"} /\ ~ args.markSeams)
    => /\ preview.w = args.tileFormat * seam.w
       /\ preview.h = args.tileFormat * seam.h
       /\ DOMAIN preview.px = Pixels(preview.w, preview.h)
       /\ \A p \in DOMAIN preview.px :
            preview.px[p] = seam.px[<<p[1] % seam.w, p[2] % seam.h>>]
       /\ args.tileFormat = 1 => preview = seam

\* a 3 x 3 preview of a surface that is not square, its last cell filled
C9_Witness ==
  /\ pc = "export" /\ ~ args.markSeams
  /\ args.tileFormat = 3 /\ seam.w # seam.h
  /\ args.method = SCATTERED
  /\ preview.px[<<3 * seam.w - 1, 3 * seam.h - 1>>] = seam.px[<<seam.w - 1, seam.h - 1>>]
  /\ seam.px[<<seam.w - 1, seam.h - 1>>].a = 2

\* C10: for every method and every non-degenerate crop the result's width and
\* height are the source's less the crop, and the preview is width*N by height*N.
C10_ResultDimensions ==
  (pc = "done" /\ ~ DegenerateCrop)
    => /\ result.width = args.w - args.crop.left - args.crop.right
       /\ result.height = args.h - args.crop.top - args.crop.bottom
       /\ result.seamlessUrl.w = result.width
       /\ result.seamlessUrl.h = result.height
       /\ result.previewUrl.w = result.width * args.tileFormat
       /\ result.previewUrl.h = result.height * args.tileFormat

\* a cropped Scattered run has returned, its preview two tiles each way
C10_Witness ==
  /\ pc = "done" /\ args.method = SCATTERED
  /\ args.crop.left > 0 /\ args.crop.top > 0 /\ args.tileFormat = 2
  /\ result.width = args.w - args.crop.left
  /\ result.height = args.h - args.crop.top
  /\ result.previewUrl.w = 2 * result.width

\* C11: when the decode fails, the base canvas cannot be made or a stage
\* throws, processTexture ends failed and stays so, returning no ProcessResult
\* (none partly filled either); the handler then records the one generic
\* error and stores no result of that invocation.
C11_FailureReturnsNothing ==
  [][/\ pc' = "failed"
         => /\ result' = NoResult
            /\ stored'.call # run'
            /\ error' = IF isProcessing' THEN NoError ELSE ProcessingError
     /\ pc = "failed"
         => /\ pc' = "failed"
            /\ UNCHANGED <<pipeVars, run>>]_vars

\* generatePatchBased has thrown after its first patches were drawn and the
\* handler has run: the error is recorded, nothing is stored
C11_Witness ==
  /\ pc = "failed" /\ ~ isProcessing
  /\ args.method = PATCH_BASED /\ i > 0 /\ seam # Blank
  /\ error = ProcessingError
  /\ result = NoResult /\ stored = NoStored

\* C12: in step 1 of generateScattered the four swapped quadrants tile the
\* W x H output, odd dimensions included: every output pixel is written by
\* exactly one of the four blits and every source rectangle lies within the
\* source.
C12_QuadrantsTile ==
  (Finished /\ args.method = SCATTERED)
    => LET qs == quadrantBlits(cur.w, cur.h)
           hw == HalfRound(cur.w) * Unit
           hh == HalfRound(cur.h) * Unit
       IN  /\ \A p \in Pixels(cur.w, cur.h) :
                Cardinality({k \in 1 .. 4 :
                   Drawn(cur, qs[k].sx, qs[k].sy, hw, hh,
                         qs[k].dx, qs[k].dy, 100, p).a > 0}) = 1
           /\ \A k \in 1 .. 4 :
                /\ qs[k].sx + hw <= cur.w * Unit
                /\ qs[k].sy + hh <= cur.h * Unit

\* the pixels lying, by more than half, in the outer 15% of the width or height
Outer15(c) ==
  {p \in DOMAIN c.px :
     \/ 20 * p[1] + 10 < 3 * c.w \/ 20 * p[1] + 10 > 17 * c.w
     \/ 20 * p[2] + 10 < 3 * c.h \/ 20 * p[2] + 10 > 17 * c.h}

\* C13: the feathered centre patch of generateScattered, 70% of the width and
\* height and pasted centred, modifies no output pixel of the outer 15% on any
\* side: those pixels keep the values the quadrant swap of step 1 wrote.
C13_PatchLeavesOuterBorder ==
  (Finished /\ args.method = SCATTERED)
    => \A p \in Outer15(seam) : seam.px[p] = swapQuadrants(cur).px[p]

\* a boundary rectangle has been drawn on the canvas
Stroked(c) == \E p \in DOMAIN c.px : RedInk \in c.px[p].c

\* C14: with markSeams the boundary rectangles are drawn only after all
\* N x N cell blits, so no cell is blitted onto a canvas that already carries
\* a boundary rectangle.
C14_StrokesAfterAllBlits ==
  [][(pc = "tile" /\ cell' = cell + 1) => ~ Stroked(preview)]_vars

\* C15: however invocation starts and completions interleave, a result that
\* reaches the stored state is that of the newest invocation started; the
\* result of an older invocation never replaces that of a newer one.
C15_NewestResultWins ==
  [][(stored' # stored /\ stored' # NoStored)
       => /\ stored'.call = run'
          /\ stored'.call > stored.call]_vars

\* the result of a second invocation is the one stored
C15_Witness ==
  /\ stored # NoStored /\ stored.call = 2 /\ run = 2
  /\ ~ isProcessing /\ flights = {}
  /\ picks = 1

\* C16: whenever the stored result is non-null it was computed from the image
\* of the currently selected file.
C16_ResultOfSelectedFile ==
  stored # NoStored => stored.src = file

\* C17: a handleProcess call that passes the file check sets isProcessing,
\* which is set back to false whether the pipeline succeeds or fails; while it
\* is set Generate is disabled, so at most one invocation is in flight.
C17_ProcessingFlag ==
  /\ [](isProcessing <=> flights # {})
  /\ [](Cardinality(flights) <= 1)
  /\ [][run' # run => (~ isProcessing /\ isProcessing' /\ run' = run + 1)]_vars
  /\ (isProcessing ~> ~ isProcessing)

\* a failed invocation after a successful one, the flag back to false
C17_Witness ==
  /\ ~ isProcessing /\ flights = {}
  /\ run = 2 /\ stored.call = 1
  /\ error = ProcessingError
====
